---- MODULE Spec2Model ----
(***************************************************************************)
(* cat-auto-power: the control loop of src/main.py (main), its command     *)
(* channel (send_command), the shared history deque and the Flask          *)
(* endpoint that writes target_pwr.                                        *)
(*                                                                         *)
(* Text on the wire is a sequence of one-character strings, so that        *)
(* startswith / removeprefix / removesuffix / strip / int() / zfill are    *)
(* computed as Python computes them.  Time is counted in ticks of 100 ms   *)
(* (time.sleep(0.1) is one tick, time.sleep(1) is ten).                    *)
(***************************************************************************)
EXTENDS Integers, Sequences, FiniteSets, TLC

\* ------------------------------------------------------------------ bounds

\* Iterations of the while-loop explored by Spec.
MaxCycles == 2
\* Non-matching lines the device may send within one send_command call.
MaxJunk == 1
\* socket.error faults injected over a run.
MaxFaults == 1
\* POST requests served over a run.
MaxPosts == 1
\* Iterations against the device that keys up, unkeys and keys up again.
WarmCycles == 4
\* Iterations and POST requests while GET requests are served.
ServeCycles == 2
ServePosts == 1
\* Iterations against the device that stays below the target.
RampCycles == 12
\* SpecLong starts this many Readings short of a full history ...
Headroom == 10
\* ... and explores this many iterations from there.
LongCycles == 20
\* Iterations explored by SpecApi.
ApiCycles == 2
\* POST requests served over a run of SpecApi.
ApiPosts == 2

\* --------------------------------------------------------- program constants

\* history = deque(maxlen=1000)
HistoryMaxLen == 1000
\* if (current_drive >= 60)
DriveResetThreshold == 60
\* next_drive = 10
DriveResetValue == 10
\* current_pwr > 3
MinPower == 3
\* str(next_drive).zfill(3)
DriveDigits == 3
\* time.sleep(0.1), in ticks
SleepTicks == 1
\* time.sleep(1), in ticks
BackoffTicks == 10

\* ----------------------------------------------------------- Python values

\* None, and an int, as values a global may hold.
PyNone == [t |-> "none", v |-> 0]
PyInt(n) == [t |-> "int", v |-> n]

\* ------------------------------------------------------------- str methods

Digits == <<"0", "1", "2", "3", "4", "5", "6", "7", "8", "9">>
DigitChars == {Digits[i] : i \in 1..10}
DigitVal(c) == (CHOOSE i \in 1..10 : Digits[i] = c) - 1
Whitespace == {" "}

\* str.startswith
StartsWith(s, p) == Len(p) <= Len(s) /\ SubSeq(s, 1, Len(p)) = p
\* str.endswith
EndsWith(s, x) == Len(x) <= Len(s) /\ SubSeq(s, Len(s) - Len(x) + 1, Len(s)) = x
\* str.removeprefix
RemovePrefix(s, p) == IF StartsWith(s, p) THEN SubSeq(s, Len(p) + 1, Len(s)) ELSE s
\* str.removesuffix
RemoveSuffix(s, x) == IF EndsWith(s, x) THEN SubSeq(s, 1, Len(s) - Len(x)) ELSE s

RECURSIVE LStrip(_)
LStrip(s) == IF s # <<>> /\ Head(s) \in Whitespace THEN LStrip(Tail(s)) ELSE s
RECURSIVE RStrip(_)
RStrip(s) ==
    IF s # <<>> /\ s[Len(s)] \in Whitespace THEN RStrip(SubSeq(s, 1, Len(s) - 1)) ELSE s
\* str.strip
Strip(s) == RStrip(LStrip(s))

\* int(s) accepts an optional sign followed by decimal digits.
IsSigned(s) == s # <<>> /\ Head(s) \in {"-", "+"}
Unsigned(s) == IF IsSigned(s) THEN Tail(s) ELSE s
IsIntLiteral(s) ==
    LET u == Unsigned(Strip(s))
    IN  u # <<>> /\ \A i \in 1..Len(u) : u[i] \in DigitChars
RECURSIVE DigitsValue(_)
DigitsValue(u) ==
    IF u = <<>> THEN 0
    ELSE 10 * DigitsValue(SubSeq(u, 1, Len(u) - 1)) + DigitVal(u[Len(u)])
\* int(s), defined where IsIntLiteral(s)
ParseInt(s) ==
    LET t == Strip(s)
    IN  IF IsSigned(t) /\ Head(t) = "-" THEN 0 - DigitsValue(Tail(t))
        ELSE DigitsValue(Unsigned(t))

RECURSIVE NatStr(_)
NatStr(n) == IF n < 10 THEN <<Digits[n + 1]>> ELSE NatStr(n \div 10) \o <<Digits[(n % 10) + 1]>>
\* str(n) of an int
Str(n) == IF n < 0 THEN <<"-">> \o NatStr(0 - n) ELSE NatStr(n)
RECURSIVE Zeros(_)
Zeros(k) == IF k <= 0 THEN <<>> ELSE <<"0">> \o Zeros(k - 1)
\* str.zfill: the zeros go after a leading sign
ZFill(s, w) ==
    IF Len(s) >= w THEN s
    ELSE IF IsSigned(s) THEN <<Head(s)>> \o Zeros(w - Len(s)) \o Tail(s)
    ELSE Zeros(w - Len(s)) \o s

\* ------------------------------------------------------------ the protocol

Sentinel == <<"?", ";">>
PwrCommand == <<"Z", "Z", "R", "M", "5", ";">>
PwrPrefix == <<"Z", "Z", "R", "M", "5">>
PwrSuffix == <<" ", "W", ";">>
DrvCommand == <<"Z", "Z", "P", "C", ";">>
DrvPrefix == <<"Z", "Z", "P", "C">>
DrvSuffix == <<";">>
\* 'ZZPC' + str(next_drive).zfill(3) + ';'
SetDriveCommand(d) == DrvPrefix \o ZFill(Str(d), DriveDigits) \o <<";">>

\* str(e) of a socket.error: a non-empty text that is no number.
ErrText == <<"[", "E", "r", "r", "n", "o", "]">>

\* Lines the device may put on the stream.
PwrLine(payload) == PwrPrefix \o payload \o PwrSuffix
DrvLine(payload) == DrvPrefix \o payload \o DrvSuffix
PowerPayloads ==
    {<<"0">>, <<"4">>, <<"5">>, <<"1", "2">>, <<" ", "1", "2">>, <<"5", ".", "5">>}
DrivePayloads ==
    {<<"0", "0", "0">>, <<"0", "5", "9">>, <<"0", "6", "0">>, <<"1", "0", "0">>,
     <<"5", ".", "0">>, <<>>}
Lines ==
    {PwrLine(p) : p \in PowerPayloads} \cup {DrvLine(p) : p \in DrivePayloads}
        \cup {Sentinel, <<>>}
\* A device that always reports 5 W.
SteadyLines == {PwrLine(<<"5">>)}
\* A device that always reports 5 W and drive 50.
ApiLines == {PwrLine(<<"5">>), DrvLine(<<"0", "5", "0">>)}
\* A device that is keyed and unkeyed: no power, below, at and above the target.
WarmLines ==
    {PwrLine(<<"0">>), PwrLine(<<"4">>), PwrLine(<<"5">>), PwrLine(<<"1", "2">>),
     DrvLine(<<"0", "5", "9">>)}

\* TARGET_PWR of the environment, an int.
InitialTargets == {5}
\* TARGET_PWR for the device that stays at 20 W.
RampTargets == {25}
\* The drive that device starts from.
RampStartPayload == <<"0", "5", "0">>
\* API_KEY of the environment; None when it is not set.
KeyNone == "<None>"
ConfiguredKeys == {"secret", KeyNone}
\* The api_key field of a POST body: absent, null, or a string.
KeyAbsent == "<absent>"
PostKeys == {KeyAbsent, KeyNone, "secret", "wrong"}
\* The api_key fields posted while the loop is explored in full.
LoopPostKeys == {"secret", "wrong"}
\* data.get('target_power') of a POST body: None when the field is absent.
PostTargets == {PyInt(6), PyNone}
\* The same, with the numbers a body may carry beside the plausible ones.
ApiPostTargets == PostTargets \cup {PyInt(0 - 1), PyInt(12000)}

\* ------------------------------------------------------------------- state

VARIABLES
    pc,                 \* main: the line the loop is at ("done" once main has returned)
    cycle,              \* iterations of the while-loop completed
    now,                \* time.time(), in ticks
    call,               \* the send_command call in progress
    current_pwr,        \* main: current_pwr
    current_drive,      \* main: current_drive
    next_drive,         \* main: next_drive
    history,            \* the module's history deque
    target_pwr,         \* the module's target_pwr
    api_key,            \* the module's api_key
    http,               \* the last POST served and its response status
    n_posts,            \* POSTs served
    faults,             \* socket.error faults so far
    appended,           \* observer: every Reading ever appended, in order
    seen_targets,       \* observer: the values of target_pwr the loop read this cycle
    in_tx,              \* observer: current_pwr > 1 at the last power reading
    tx_start_time,      \* observer: when in_tx last became true
    adjust_times,       \* observer: <<time of the set-drive before the last, time of the last>>
    cycle_log,          \* observer: the send_command calls that returned in this cycle
    reply               \* the last GET served: what was asked, the body, where main was

vars ==
    <<pc, cycle, now, call, current_pwr, current_drive, next_drive, history, target_pwr,
      api_key, http, n_posts, faults, appended, seen_targets, in_tx, tx_start_time,
      adjust_times, cycle_log, reply>>

\* The observers' "no such time yet".
Never == 0 - 1

\* No GET served yet.
NoReply == [kind |-> "none", target |-> PyNone, history |-> <<>>, pc |-> "", call |-> ""]

IdleCall ==
    [kind |-> "none", cmd |-> <<>>, prefix |-> <<>>, suffix |-> <<>>, read_response |-> FALSE,
     status |-> "idle", sends |-> 0, discarded |-> 0, line |-> <<>>, ret |-> <<>>,
     fault |-> FALSE]

InitFor(keys, targets) ==
    /\ pc = "L381"
    /\ cycle = 0
    /\ now = 0
    /\ call = IdleCall
    /\ current_pwr = 0
    /\ current_drive = 0
    /\ next_drive = 0
    /\ history = <<>>
    /\ target_pwr \in {PyInt(t) : t \in targets}
    /\ api_key \in keys
    /\ http = [key |-> KeyAbsent, status |-> 0]
    /\ n_posts = 0
    /\ faults = 0
    /\ appended = <<>>
    /\ seen_targets = {}
    /\ in_tx = FALSE
    /\ tx_start_time = Never
    /\ adjust_times = <<Never, Never>>
    /\ cycle_log = <<>>
    /\ reply = NoReply

InitWith(keys) == InitFor(keys, InitialTargets)
Init == InitWith({"secret"})
InitRamp == InitFor({"secret"}, RampTargets)
InitApi == InitWith(ConfiguredKeys)

\* The state after LongStart iterations against a device that reports 5 W, the target,
\* every time: each iteration appended one Reading and slept one tick.
LongStart == HistoryMaxLen - Headroom
SteadyReading(i) ==
    [timestamp |-> (i - 1) * SleepTicks, power |-> 5, target |-> PyInt(5), drive |-> 0]
InitLong ==
    /\ pc = "L381"
    /\ cycle = LongStart
    /\ now = LongStart * SleepTicks
    /\ call = IdleCall
    /\ current_pwr = 5
    /\ current_drive = 0
    /\ next_drive = 0
    /\ history = [i \in 1..LongStart |-> SteadyReading(i)]
    /\ target_pwr = PyInt(5)
    /\ api_key = "secret"
    /\ http = [key |-> KeyAbsent, status |-> 0]
    /\ n_posts = 0
    /\ faults = 0
    /\ appended = [i \in 1..LongStart |-> SteadyReading(i)]
    /\ seen_targets = {}
    /\ in_tx = TRUE
    /\ tx_start_time = 0
    /\ adjust_times = <<Never, Never>>
    /\ cycle_log = <<>>
    /\ reply = NoReply

\* ------------------------------------------------------------ send_command

\* A call that reads a response whether one is expected or not.
SendAllOkThenRead(kind, command, prefix, suffix, read) ==
    [kind |-> kind, cmd |-> command, prefix |-> prefix, suffix |-> suffix,
     read_response |-> read, status |-> "reading",
     sends |-> 1, discarded |-> 0, line |-> <<>>, ret |-> <<>>, fault |-> FALSE]

\* sock.sendall succeeded; without read_response the call returns "".
SendAllOk(kind, command, prefix, suffix, read) ==
    [kind |-> kind, cmd |-> command, prefix |-> prefix, suffix |-> suffix,
     read_response |-> read, status |-> IF read THEN "reading" ELSE "returned",
     sends |-> 1, discarded |-> 0, line |-> <<>>, ret |-> <<>>, fault |-> FALSE]

\* sock.sendall raised socket.error: the call returns str(e).
SendAllFault(kind, command, prefix, suffix, read) ==
    [kind |-> kind, cmd |-> command, prefix |-> prefix, suffix |-> suffix,
     read_response |-> read, status |-> "returned",
     sends |-> 0, discarded |-> 0, line |-> <<>>, ret |-> ErrText, fault |-> TRUE]

\* response.startswith(prefix) or response == '?;'
Accepts(response, prefix) == StartsWith(response, prefix) \/ response = Sentinel

\* The processing with the strip() left out.
ProcessResponseUnstripped(response, prefix, suffix) ==
    LET processed_response == RemoveSuffix(RemovePrefix(response, prefix), suffix)
    IN  IF processed_response = Sentinel THEN <<>> ELSE processed_response

\* The value returned for an accepted response.
ProcessResponse(response, prefix, suffix) ==
    LET processed_response == Strip(RemoveSuffix(RemovePrefix(response, prefix), suffix))
    IN  IF processed_response = Sentinel THEN <<>> ELSE processed_response

\* sock.recv returned a line that is accepted: the call returns.
RecvMatch(lines) ==
    /\ call.status = "reading"
    /\ \E data \in lines :
        LET response == Strip(data)
        IN  /\ Accepts(response, call.prefix)
            /\ call' = [call EXCEPT !.status = "returned", !.line = response,
                                    !.ret = ProcessResponse(response, call.prefix, call.suffix)]
    /\ UNCHANGED <<pc, cycle, now, current_pwr, current_drive, next_drive, history,
                   target_pwr, api_key, http, n_posts, faults, appended, seen_targets,
                   in_tx, tx_start_time, adjust_times,
                   cycle_log, reply>>

\* sock.recv returned a line that is not accepted: it is printed and the loop reads on.
RecvDiscard(lines) ==
    /\ call.status = "reading"
    /\ call.discarded < MaxJunk
    /\ \E data \in lines :
        LET response == Strip(data)
        IN  /\ ~Accepts(response, call.prefix)
            /\ call' = [call EXCEPT !.discarded = @ + 1]
    /\ UNCHANGED <<pc, cycle, now, current_pwr, current_drive, next_drive, history,
                   target_pwr, api_key, http, n_posts, faults, appended, seen_targets,
                   in_tx, tx_start_time, adjust_times,
                   cycle_log, reply>>

\* sock.recv raised socket.error: the call returns str(e).
RecvFault ==
    /\ call.status = "reading"
    /\ faults < MaxFaults
    /\ faults' = faults + 1
    /\ call' = [call EXCEPT !.status = "returned", !.ret = ErrText, !.fault = TRUE]
    /\ UNCHANGED <<pc, cycle, now, current_pwr, current_drive, next_drive, history,
                   target_pwr, api_key, http, n_posts, appended, seen_targets,
                   in_tx, tx_start_time, adjust_times,
                   cycle_log, reply>>

\* -------------------------------------------------------------------- main

\* An append that never drops an item.
DequeAppendUnbounded(d, x) == Append(d, x)

\* deque.append with maxlen: a full deque drops its oldest item.
DequeAppend(d, x) ==
    IF Len(d) >= HistoryMaxLen THEN Tail(d) \o <<x>> ELSE Append(d, x)

\* The dict appended to history.
Reading ==
    [timestamp |-> now, power |-> current_pwr, target |-> target_pwr, drive |-> current_drive]

\* What the observer keeps of a call that has returned to main.
Returned(c) == [kind |-> c.kind, cmd |-> c.cmd, ret |-> c.ret, fault |-> c.fault]

\* except Exception at the bottom of main: the loop is left and main returns.
Raised == "done"

\* pwr_response = send_command(sock, 'ZZRM5;', "ZZRM5", " W;"): sendall.
QueryPower(maxCycles) ==
    /\ pc = "L381" /\ call.status = "idle"
    /\ cycle < maxCycles
    /\ call' = SendAllOk("pwr", PwrCommand, PwrPrefix, PwrSuffix, TRUE)
    /\ UNCHANGED <<pc, cycle, now, current_pwr, current_drive, next_drive, history,
                   target_pwr, api_key, http, n_posts, faults, appended, seen_targets,
                   in_tx, tx_start_time, adjust_times,
                   cycle_log, reply>>

QueryPowerFault ==
    /\ pc = "L381" /\ call.status = "idle"
    /\ cycle < MaxCycles
    /\ faults < MaxFaults
    /\ faults' = faults + 1
    /\ call' = SendAllFault("pwr", PwrCommand, PwrPrefix, PwrSuffix, TRUE)
    /\ UNCHANGED <<pc, cycle, now, current_pwr, current_drive, next_drive, history,
                   target_pwr, api_key, http, n_posts, appended, seen_targets,
                   in_tx, tx_start_time, adjust_times,
                   cycle_log, reply>>

\* if pwr_response: current_pwr = int(pwr_response) ... else: (the backoff)
PowerResult ==
    /\ pc = "L381" /\ call.status = "returned"
    /\ call' = IdleCall
    /\ cycle_log' = Append(cycle_log, Returned(call))
    /\ IF call.ret = <<>>
       THEN /\ pc' = "L416"
            /\ UNCHANGED <<current_pwr, in_tx, tx_start_time>>
       ELSE IF ~IsIntLiteral(call.ret)
       THEN /\ pc' = Raised
            /\ UNCHANGED <<current_pwr, in_tx, tx_start_time>>
       ELSE /\ pc' = "L388"
            /\ current_pwr' = ParseInt(call.ret)
            /\ in_tx' = (current_pwr' > 1)
            /\ tx_start_time' = IF in_tx' /\ ~in_tx THEN now ELSE tx_start_time
    /\ UNCHANGED <<cycle, now, current_drive, next_drive, history, target_pwr, api_key,
                   http, n_posts, faults, appended, seen_targets, adjust_times,
                   reply>>

\* history.append({...})
AppendHistory ==
    /\ pc = "L388"
    /\ history' = DequeAppend(history, Reading)
    /\ appended' = Append(appended, Reading)
    /\ seen_targets' = seen_targets \cup {target_pwr}
    /\ pc' = "L395a"
    /\ UNCHANGED <<cycle, now, call, current_pwr, current_drive, next_drive, target_pwr,
                   api_key, http, n_posts, faults, in_tx, tx_start_time, adjust_times,
                   cycle_log, reply>>

\* if current_pwr > target_pwr or ...: the left operand (an int against None raises)
CompareAbove ==
    /\ pc = "L395a"
    /\ seen_targets' = seen_targets \cup {target_pwr}
    /\ pc' = IF target_pwr.t # "int" THEN Raised
             ELSE IF current_pwr > target_pwr.v THEN "L396" ELSE "L395b"
    /\ UNCHANGED <<cycle, now, call, current_pwr, current_drive, next_drive, history,
                   target_pwr, api_key, http, n_posts, faults, appended, in_tx,
                   tx_start_time, adjust_times,
                   cycle_log, reply>>

\* ... or current_pwr < target_pwr: the right operand, evaluated when the left is false
CompareBelow ==
    /\ pc = "L395b"
    /\ seen_targets' = seen_targets \cup {target_pwr}
    /\ pc' = IF target_pwr.t # "int" THEN Raised
             ELSE IF current_pwr < target_pwr.v THEN "L396" ELSE "L414"
    /\ UNCHANGED <<cycle, now, call, current_pwr, current_drive, next_drive, history,
                   target_pwr, api_key, http, n_posts, faults, appended, in_tx,
                   tx_start_time, adjust_times,
                   cycle_log, reply>>

\* current_drive_response = send_command(sock, 'ZZPC;', "ZZPC", ";"): sendall.
QueryDrive ==
    /\ pc = "L396" /\ call.status = "idle"
    /\ call' = SendAllOk("drv", DrvCommand, DrvPrefix, DrvSuffix, TRUE)
    /\ UNCHANGED <<pc, cycle, now, current_pwr, current_drive, next_drive, history,
                   target_pwr, api_key, http, n_posts, faults, appended, seen_targets,
                   in_tx, tx_start_time, adjust_times,
                   cycle_log, reply>>

QueryDriveFault ==
    /\ pc = "L396" /\ call.status = "idle"
    /\ faults < MaxFaults
    /\ faults' = faults + 1
    /\ call' = SendAllFault("drv", DrvCommand, DrvPrefix, DrvSuffix, TRUE)
    /\ UNCHANGED <<pc, cycle, now, current_pwr, current_drive, next_drive, history,
                   target_pwr, api_key, http, n_posts, appended, seen_targets,
                   in_tx, tx_start_time, adjust_times,
                   cycle_log, reply>>

\* The drive main held before the query.
HeldDrive(response) == current_drive

\* current_drive = int(current_drive_response)
QueriedDrive(response) == ParseInt(response)

\* if current_drive_response: current_drive = int(...); if (current_drive >= 60): next_drive = 10
DriveResult ==
    /\ pc = "L396" /\ call.status = "returned"
    /\ call' = IdleCall
    /\ cycle_log' = Append(cycle_log, Returned(call))
    /\ IF call.ret = <<>>
       THEN /\ pc' = "L414"
            /\ UNCHANGED <<current_drive, next_drive>>
       ELSE IF ~IsIntLiteral(call.ret)
       THEN /\ pc' = Raised
            /\ UNCHANGED <<current_drive, next_drive>>
       ELSE /\ current_drive' = QueriedDrive(call.ret)
            /\ IF current_drive' >= DriveResetThreshold
               THEN pc' = "L402" /\ next_drive' = DriveResetValue
               ELSE pc' = "L404" /\ UNCHANGED next_drive
    /\ UNCHANGED <<cycle, now, current_pwr, history, target_pwr, api_key, http, n_posts,
                   faults, appended, seen_targets, in_tx, tx_start_time, adjust_times,
                   reply>>

\* elif (current_pwr > target_pwr): next_drive = current_drive - 1
CheckAbove ==
    /\ pc = "L404"
    /\ seen_targets' = seen_targets \cup {target_pwr}
    /\ IF target_pwr.t # "int"
       THEN pc' = Raised /\ UNCHANGED next_drive
       ELSE IF current_pwr > target_pwr.v
       THEN pc' = "L407" /\ next_drive' = current_drive - 1
       ELSE pc' = "L409" /\ UNCHANGED next_drive
    /\ UNCHANGED <<cycle, now, call, current_pwr, current_drive, history, target_pwr,
                   api_key, http, n_posts, faults, appended, in_tx, tx_start_time,
                   adjust_times,
                   cycle_log, reply>>

\* A step of two.
RaisedDriveByTwo(d) == d + 2

\* No floor under the power.
AboveMinimumAlways(p) == p >= 0

\* current_pwr > 3
AboveMinimum(p) == p > MinPower

\* next_drive = current_drive + 1
RaisedDrive(d) == d + 1

\* elif (current_pwr > 3 and current_pwr < target_pwr): next_drive = current_drive + 1
CheckBelow ==
    /\ pc = "L409"
    /\ IF ~AboveMinimum(current_pwr)
       THEN pc' = "L414" /\ UNCHANGED <<next_drive, seen_targets>>
       ELSE /\ seen_targets' = seen_targets \cup {target_pwr}
            /\ IF target_pwr.t # "int"
               THEN pc' = Raised /\ UNCHANGED next_drive
               ELSE IF current_pwr < target_pwr.v
               THEN pc' = "L412" /\ next_drive' = RaisedDrive(current_drive)
               ELSE pc' = "L414" /\ UNCHANGED next_drive
    /\ UNCHANGED <<cycle, now, call, current_pwr, current_drive, history, target_pwr,
                   api_key, http, n_posts, faults, appended, in_tx, tx_start_time,
                   adjust_times,
                   cycle_log, reply>>

SetDriveLines == {"L402", "L407", "L412"}

\* send_command(sock, 'ZZPC' + str(next_drive).zfill(3) + ';', "", "", False): sendall.
SetDrive ==
    /\ pc \in SetDriveLines /\ call.status = "idle"
    /\ call' = SendAllOk("set", SetDriveCommand(next_drive), <<>>, <<>>, FALSE)
    /\ adjust_times' = <<adjust_times[2], now>>
    /\ UNCHANGED <<pc, cycle, now, current_pwr, current_drive, next_drive, history,
                   target_pwr, api_key, http, n_posts, faults, appended, seen_targets,
                   in_tx, tx_start_time,
                   cycle_log, reply>>

SetDriveFault ==
    /\ pc \in SetDriveLines /\ call.status = "idle"
    /\ faults < MaxFaults
    /\ faults' = faults + 1
    /\ call' = SendAllFault("set", SetDriveCommand(next_drive), <<>>, <<>>, FALSE)
    /\ UNCHANGED <<pc, cycle, now, current_pwr, current_drive, next_drive, history,
                   target_pwr, api_key, http, n_posts, appended, seen_targets,
                   in_tx, tx_start_time, adjust_times,
                   cycle_log, reply>>

\* The value send_command returned is dropped; current_drive = next_drive.
SetDriveResult ==
    /\ pc \in SetDriveLines /\ call.status = "returned"
    /\ call' = IdleCall
    /\ cycle_log' = Append(cycle_log, Returned(call))
    /\ current_drive' = next_drive
    /\ pc' = "L414"
    /\ UNCHANGED <<cycle, now, current_pwr, next_drive, history, target_pwr, api_key,
                   http, n_posts, faults, appended, seen_targets, in_tx, tx_start_time,
                   adjust_times,
                   reply>>

\* time.sleep(0.1), and back to the head of the loop
Sleep ==
    /\ pc = "L414"
    /\ now' = now + SleepTicks
    /\ cycle' = cycle + 1
    /\ seen_targets' = {}
    /\ cycle_log' = <<>>
    /\ pc' = "L381"
    /\ UNCHANGED <<call, current_pwr, current_drive, next_drive, history, target_pwr,
                   api_key, http, n_posts, faults, appended, in_tx, tx_start_time,
                   adjust_times,
                   reply>>

\* time.sleep(1), and back to the head of the loop
Backoff ==
    /\ pc = "L416"
    /\ now' = now + BackoffTicks
    /\ cycle' = cycle + 1
    /\ seen_targets' = {}
    /\ cycle_log' = <<>>
    /\ pc' = "L381"
    /\ UNCHANGED <<call, current_pwr, current_drive, next_drive, history, target_pwr,
                   api_key, http, n_posts, faults, appended, in_tx, tx_start_time,
                   adjust_times,
                   reply>>

\* ------------------------------------------------------------------- Flask

\* A check of the field's presence alone.
UnauthorizedIfAbsent(key) == key = KeyAbsent

\* 'api_key' not in data or data['api_key'] != api_key
Unauthorized(key) == key = KeyAbsent \/ key # api_key

\* POST /api/power with the body's api_key and target_power
Post(key, target, maxPosts) ==
    /\ n_posts < maxPosts
    /\ n_posts' = n_posts + 1
    /\ IF Unauthorized(key)
       THEN /\ http' = [key |-> key, status |-> 401]
            /\ UNCHANGED target_pwr
       ELSE /\ http' = [key |-> key, status |-> 200]
            /\ target_pwr' = target
    /\ UNCHANGED <<pc, cycle, now, call, current_pwr, current_drive, next_drive, history,
                   api_key, faults, appended, seen_targets, in_tx, tx_start_time,
                   adjust_times,
                   cycle_log, reply>>

\* The GET handlers take no lock and wait for nothing: they read the globals as they are.
\* A GET handler that waits for a send_command call in progress to return.
ServedBetweenCalls == call.status # "reading"

\* A GET handler that lives only while main runs.
ServedWhileRunning == pc # Raised

\* What a GET handler waits for before it reads the globals: nothing.
Served == TRUE

\* GET /api/power: return {'target_power': target_pwr}
GetPower ==
    /\ Served
    /\ reply' = [kind |-> "power", target |-> target_pwr, history |-> <<>>,
                 pc |-> pc, call |-> call.status]
    /\ UNCHANGED <<pc, cycle, now, call, current_pwr, current_drive, next_drive, history,
                   target_pwr, api_key, http, n_posts, faults, appended, seen_targets,
                   in_tx, tx_start_time, adjust_times, cycle_log>>

\* GET /api/history: return jsonify(list(history))
GetHistory ==
    /\ Served
    /\ reply' = [kind |-> "history", target |-> PyNone, history |-> history,
                 pc |-> pc, call |-> call.status]
    /\ UNCHANGED <<pc, cycle, now, call, current_pwr, current_drive, next_drive, history,
                   target_pwr, api_key, http, n_posts, faults, appended, seen_targets,
                   in_tx, tx_start_time, adjust_times, cycle_log>>

\* ---------------------------------------------------------- specifications

Next ==
    \/ QueryPower(MaxCycles)
    \/ QueryPowerFault
    \/ RecvMatch(Lines)
    \/ RecvDiscard(Lines)
    \/ RecvFault
    \/ PowerResult
    \/ AppendHistory
    \/ CompareAbove
    \/ CompareBelow
    \/ QueryDrive
    \/ QueryDriveFault
    \/ DriveResult
    \/ CheckAbove
    \/ CheckBelow
    \/ SetDrive
    \/ SetDriveFault
    \/ SetDriveResult
    \/ Sleep
    \/ Backoff
    \/ \E key \in LoopPostKeys, target \in PostTargets : Post(key, target, MaxPosts)

Spec == Init /\ [][Next]_vars

\* The loop against a steady device, from a nearly full history until it has overflowed.
NextLong ==
    \/ QueryPower(LongStart + LongCycles)
    \/ RecvMatch(SteadyLines)
    \/ PowerResult
    \/ AppendHistory
    \/ CompareAbove
    \/ CompareBelow
    \/ Sleep

SpecLong == InitLong /\ [][NextLong]_vars

\* Every kind of POST, with and without API_KEY set, beside the loop on a steady device.
NextApi ==
    \/ QueryPower(ApiCycles)
    \/ RecvMatch(ApiLines)
    \/ PowerResult
    \/ AppendHistory
    \/ CompareAbove
    \/ CompareBelow
    \/ QueryDrive
    \/ DriveResult
    \/ CheckAbove
    \/ CheckBelow
    \/ SetDrive
    \/ SetDriveResult
    \/ Sleep
    \/ \E key \in PostKeys, target \in ApiPostTargets : Post(key, target, ApiPosts)

SpecApi == InitApi /\ [][NextApi]_vars

\* The loop alone against a device that is keyed, unkeyed and keyed again.
NextWarm ==
    \/ QueryPower(WarmCycles)
    \/ RecvMatch(WarmLines)
    \/ PowerResult
    \/ AppendHistory
    \/ CompareAbove
    \/ CompareBelow
    \/ QueryDrive
    \/ DriveResult
    \/ CheckAbove
    \/ CheckBelow
    \/ SetDrive
    \/ SetDriveResult
    \/ Sleep

SpecWarm == Init /\ [][NextWarm]_vars

\* A device that reports 20 W whatever the drive, starts at drive 50 and reports the drive
\* of the last set-drive command it was sent.
RampLines ==
    {PwrLine(<<"2", "0">>),
     DrvLine(IF adjust_times[2] = Never THEN RampStartPayload
             ELSE ZFill(Str(next_drive), DriveDigits))}

\* The loop alone against that device.
NextRamp ==
    \/ QueryPower(RampCycles)
    \/ RecvMatch(RampLines)
    \/ PowerResult
    \/ AppendHistory
    \/ CompareAbove
    \/ CompareBelow
    \/ QueryDrive
    \/ DriveResult
    \/ CheckAbove
    \/ CheckBelow
    \/ SetDrive
    \/ SetDriveResult
    \/ Sleep

SpecRamp == InitRamp /\ [][NextRamp]_vars

\* The loop with its socket faults beside the three request handlers.
NextServe ==
    \/ QueryPower(ServeCycles)
    \/ QueryPowerFault
    \/ RecvMatch(ApiLines)
    \/ RecvFault
    \/ PowerResult
    \/ AppendHistory
    \/ CompareAbove
    \/ CompareBelow
    \/ QueryDrive
    \/ QueryDriveFault
    \/ DriveResult
    \/ CheckAbove
    \/ CheckBelow
    \/ SetDrive
    \/ SetDriveFault
    \/ SetDriveResult
    \/ Sleep
    \/ GetPower
    \/ GetHistory
    \/ \E key \in LoopPostKeys, target \in PostTargets : Post(key, target, ServePosts)

SpecServe == Init /\ [][NextServe]_vars

\* ------------------------------------------------------------------ claims

\* A set-drive command has been sent and its call has not yet been consumed.
SetDriveIssued == call.kind = "set" /\ call.status = "returned" /\ ~call.fault

\* Every read of target_pwr in this cycle gave the same int t.
CycleTarget(t) == seen_targets = {PyInt(t)}

Abs(n) == IF n < 0 THEN 0 - n ELSE n

\* C1: every drive value sent by a set-drive command lies in 0..100; with the device at
\* drive 0 and power above target, no value below 0 is sent.
C1_DriveInRange ==
    call.kind = "set" => (0 <= next_drive /\ next_drive <= 100)

\* C2: in a cycle where |target - power| is at most the deadband of 1 W, no set-drive
\* command is issued.
C2_NoSetWithinDeadband ==
    \A t \in InitialTargets \cup {6} :
        (SetDriveIssued /\ CycleTarget(t)) => Abs(t - current_pwr) > 1

\* C3: a set-drive command is issued only while transmitting (power > 1 W), more than
\* 2.5 s (25 ticks) after the transmit interval began, with the error beyond the deadband,
\* and more than 0.5 s (5 ticks) after the previous set-drive.
C3_AdjustOnlyWhenEligible ==
    \A t \in InitialTargets \cup {6} :
        (SetDriveIssued /\ CycleTarget(t)) =>
            /\ current_pwr > 1
            /\ now - tx_start_time > 25
            /\ Abs(t - current_pwr) > 1
            /\ (adjust_times[1] = Never \/ now - adjust_times[1] > 5)

\* C4: once a socket fault has struck a command and the call has returned to main, the
\* loop is over.
C4_FaultEndsLoop ==
    (faults > 0 /\ call.status = "idle") => pc = "done"

\* C5: a response whose payload is no number never ends the loop.
C5_ParseErrorNotFatal ==
    [][(/\ call.status = "returned" /\ call.read_response /\ ~call.fault
        /\ call.ret # <<>> /\ ~IsIntLiteral(call.ret))
       => pc' # "done"]_vars

\* C6: when the device rejects a query with "?;", the loop keeps running: after a
\* rejected power query it backs off without a Reading; after a rejected drive query it
\* sleeps without a set-drive command.
C6_RejectionSkipsValue ==
    [][(/\ call.status = "returned" /\ call.read_response /\ ~call.fault
        /\ call.line = Sentinel /\ call'.status = "idle")
       => /\ pc' # "done"
          /\ history' = history
          /\ call.kind = "pwr" => pc' = "L416"
          /\ call.kind = "drv" => pc' = "L414"]_vars

\* C7: send_command returns the empty string whenever the line it accepts is "?;".
C7_SentinelYieldsEmpty ==
    (/\ call.status = "returned" /\ call.read_response /\ ~call.fault
     /\ call.line = Sentinel)
    => call.ret = <<>>

\* A call that expected a response has returned one.
Answered == call.status = "returned" /\ call.read_response /\ ~call.fault

\* C8, as stated: the command is sent once, the line that ends the call starts with the
\* prefix or is the sentinel, and the value returned is that line without the prefix at
\* its start and the suffix at its end.
C8_PrefixSuffixRemoved ==
    Answered =>
        /\ call.sends = 1
        /\ Accepts(call.line, call.prefix)
        /\ call.ret = RemoveSuffix(RemovePrefix(call.line, call.prefix), call.suffix)

\* The line without prefix and suffix, then without the blanks around it.
Trimmed(c) == Strip(RemoveSuffix(RemovePrefix(c.line, c.prefix), c.suffix))

\* C8, amended: ... and the value returned is that line without the prefix at its start
\* and the suffix at its end, then stripped of surrounding whitespace; a value that is
\* then exactly "?;" is returned as the empty string.
C8_PrefixSuffixRemovedTrimmed ==
    Answered =>
        /\ call.sends = 1
        /\ Accepts(call.line, call.prefix)
        /\ Trimmed(call) # Sentinel => call.ret = Trimmed(call)
        /\ Trimmed(call) = Sentinel => call.ret = <<>>

\* "ZZRM512 W;" gave "12" after an earlier, non-matching line was discarded.
C8_Witness ==
    /\ Answered
    /\ call.discarded > 0
    /\ call.line = PwrLine(<<"1", "2">>)
    /\ call.ret = <<"1", "2">>

\* C9: history never holds more than its capacity, and it holds exactly the most recent
\* Readings appended, in the order they were appended.
C9_HistoryKeepsNewest ==
    LET n == Len(appended)
        k == IF n < HistoryMaxLen THEN n ELSE HistoryMaxLen
    IN  /\ Len(history) <= HistoryMaxLen
        /\ Len(history) = k
        /\ history = SubSeq(appended, n - k + 1, n)

\* More Readings than the capacity have been appended, so the oldest was evicted.
C9_Witness ==
    /\ Len(appended) = HistoryMaxLen + 1
    /\ Len(history) = HistoryMaxLen
    /\ history[1] = appended[2]

\* C10: a POST whose api_key is absent or differs from the configured one answers 401 and
\* leaves target_pwr as it was; target_pwr changes only in a POST carrying the configured
\* key.
C10_WriteNeedsKey ==
    [][/\ (n_posts' # n_posts /\ (http'.key = KeyAbsent \/ http'.key # api_key))
            => (http'.status = 401 /\ target_pwr' = target_pwr)
       /\ target_pwr' # target_pwr
            => (n_posts' # n_posts /\ http'.key # KeyAbsent /\ http'.key = api_key)]_vars

\* A POST with a wrong key was refused after one with the right key had set the target.
C10_Witness ==
    /\ http.status = 401
    /\ http.key = "wrong"
    /\ api_key = "secret"
    /\ target_pwr = PyInt(6)

\* C11: after any sequence of POSTs the target power is an integer in 0..10000: a POST
\* with the right key whose target_power is missing, no integer, or out of that range is
\* refused and leaves the target as it was.
C11_TargetStaysValid ==
    /\ target_pwr.t = "int"
    /\ 0 <= target_pwr.v
    /\ target_pwr.v <= 10000

\* The Reading of this cycle opens a transmit interval (power above 1 W after a Reading
\* at 1 W or less), and the transmit interval before it last sat on its target, the
\* target of this cycle, with drive d > 0, which is not the drive main holds now.
WarmStartDue(d) ==
    LET k == Len(appended) IN
    /\ k >= 3
    /\ appended[k].timestamp = now
    /\ appended[k].power > 1
    /\ appended[k - 1].power <= 1
    /\ appended[k].drive # d
    /\ \E i \in 1..(k - 2), e \in 2..(k - 1) :
        /\ i < e
        /\ appended[i].power > 1
        /\ appended[i].target = PyInt(appended[i].power)
        /\ appended[i].target = appended[k].target
        /\ appended[i].drive = d
        /\ \A j \in (i + 1)..(e - 1) :
            appended[j].power > 1 /\ appended[j].target # PyInt(appended[j].power)
        /\ \A j \in e..(k - 1) : appended[j].power <= 1

\* C12: when a transmit interval opens at a target for which the interval before left a
\* stable drive d, the cycle that sees it sends set-drive d and nothing else after the
\* power query: no drive query, no step by one.
C12_WarmStart ==
    \A d \in 1..100 :
        (WarmStartDue(d) /\ pc = "L414") =>
            /\ Len(cycle_log) = 2
            /\ cycle_log[2].kind = "set"
            /\ cycle_log[2].cmd = SetDriveCommand(d)

\* The drive query of this cycle returned the drive main now holds.
DriveQueried ==
    /\ Len(cycle_log) >= 2
    /\ cycle_log[2].kind = "drv"
    /\ IsIntLiteral(cycle_log[2].ret)
    /\ ParseInt(cycle_log[2].ret) = current_drive

ReadingTaken == appended # <<>> /\ appended[Len(appended)].timestamp = now

\* The drive level this cycle decides on: the drive the device reported when it was
\* queried in this cycle, and otherwise the drive main held when the cycle began.
CycleDrive ==
    IF Len(cycle_log) >= 2 /\ cycle_log[2].kind = "drv" /\ IsIntLiteral(cycle_log[2].ret)
    THEN ParseInt(cycle_log[2].ret)
    ELSE appended[Len(appended)].drive

\* C14: a cycle whose drive level is 60 or more sends the set-drive command for 10,
\* whatever the power is against the target, also when they are equal.
C14_ResetAtThreshold ==
    (pc = "L414" /\ ReadingTaken /\ CycleDrive >= 60) =>
        /\ cycle_log # <<>>
        /\ cycle_log[Len(cycle_log)].kind = "set"
        /\ cycle_log[Len(cycle_log)].cmd = SetDriveCommand(10)

\* C15: in a cycle where the power is at most 3 W and below the target, the only
\* set-drive command there can be is the reset, for a device drive of 60 or more: with
\* the device drive below 60 the cycle ends without one.
C15_NoRaiseAtLowPower ==
    \A t \in InitialTargets \cup {6} :
        (CycleTarget(t) /\ current_pwr <= 3 /\ current_pwr < t) =>
            /\ SetDriveIssued => (DriveQueried /\ current_drive >= 60 /\ next_drive = 10)
            /\ (pc = "L414" /\ DriveQueried /\ current_drive < 60) => Len(cycle_log) = 2

\* At 0 W under a target of 5 the device reported drive 59 and the cycle is over with
\* the two queries alone.
C15_Witness ==
    /\ pc = "L414"
    /\ CycleTarget(5)
    /\ current_pwr = 0
    /\ DriveQueried
    /\ current_drive = 59
    /\ Len(cycle_log) = 2

\* main is inside send_command, waiting in sock.recv for the device.
AwaitingDevice == call.status = "reading"

\* C16: while main waits for a device response, GET /api/power, GET /api/history and
\* POST /api/power can each be served at once: no handler waits for the call to return.
C16_ServedWhileWaiting ==
    AwaitingDevice =>
        /\ ENABLED GetPower
        /\ ENABLED GetHistory
        /\ n_posts < ServePosts => ENABLED Post("secret", PyInt(6), ServePosts)

\* A GET /api/power was served while main waited for the device, after a POST had set
\* the target to 6, and main is waiting still.
C16_Witness ==
    /\ AwaitingDevice
    /\ reply.kind = "power"
    /\ reply.call = "reading"
    /\ reply.target = PyInt(6)
    /\ http.status = 200

\* C17: once main has ended, after a socket fault or any other exception, the handlers
\* are still served: history never changes again, GET /api/history returns it as it was
\* when main ended, and the target can still be read and written.
C17_ServesAfterStop ==
    /\ [](pc = Raised =>
            /\ ENABLED GetPower
            /\ ENABLED GetHistory
            /\ n_posts < ServePosts => ENABLED Post("secret", PyInt(6), ServePosts))
    /\ [][pc = Raised =>
            /\ pc' = Raised
            /\ history' = history
            /\ (reply' # reply /\ reply'.kind = "history") => reply'.history = history
            /\ (reply' # reply /\ reply'.kind = "power") => reply'.target = target_pwr]_vars

\* A socket fault in the second iteration ended main; since then a POST has set the
\* target to 6 and GET /api/history has returned the one Reading taken before.
C17_Witness ==
    /\ pc = Raised
    /\ faults = 1
    /\ Len(history) = 1
    /\ reply.kind = "history"
    /\ reply.pc = Raised
    /\ reply.history = history
    /\ target_pwr = PyInt(6)
    /\ history[1].target = PyInt(5)

\* The last call of this cycle was a set-drive command that went out.
SetDriveDone ==
    /\ cycle_log # <<>>
    /\ cycle_log[Len(cycle_log)].kind = "set"
    /\ ~cycle_log[Len(cycle_log)].fault

\* C18: a set-drive command is the third call of its cycle and the only set-drive in
\* it, after the power query and a drive query that returned a number q; it carries q - 1
\* or q + 1 when q is below 60 and 10 otherwise, never q itself, and when it has been
\* sent current_drive is the value it carried.
C18_SetDriveFollowsQuery ==
    SetDriveDone =>
        /\ Len(cycle_log) = 3
        /\ cycle_log[1].kind = "pwr"
        /\ cycle_log[2].kind = "drv"
        /\ ~cycle_log[2].fault
        /\ IsIntLiteral(cycle_log[2].ret)
        /\ LET q == ParseInt(cycle_log[2].ret) IN
            /\ cycle_log[3].cmd = SetDriveCommand(current_drive)
            /\ current_drive # q
            /\ q < 60 => current_drive \in {q - 1, q + 1}
            /\ q >= 60 => current_drive = 10

\* main held drive 0, the device reported 59, and the cycle has sent ZZPC060;.
C18_Witness ==
    /\ SetDriveDone
    /\ ReadingTaken
    /\ appended[Len(appended)].drive = 0
    /\ ParseInt(cycle_log[2].ret) = 59
    /\ current_drive = 60

\* The text a response to command c opens with: the command without its ';'.
Echo(c) == SubSeq(c, 1, Len(c) - 1)

C20_SingleSnapshot ==
    (ReadingTaken /\ \A t \in seen_targets : t.t = "int") =>
        seen_targets = {appended[Len(appended)].target}

\* The Readings appended in this cycle.
CycleReadings == {i \in 1..Len(appended) : appended[i].timestamp = now}

\* The power query of this cycle returned a number.
PowerUsable ==
    /\ cycle_log # <<>>
    /\ cycle_log[1].kind = "pwr"
    /\ ~cycle_log[1].fault
    /\ IsIntLiteral(cycle_log[1].ret)

\* The drive levels known at the device in this cycle: the one it reported to the drive
\* query, the one a set-drive command carried to it, and, when the cycle did neither, the
\* drive main holds.
DrivesInEffect ==
    LET reported == {ParseInt(cycle_log[i].ret) : i \in
                        {j \in 1..Len(cycle_log) :
                            /\ cycle_log[j].kind = "drv"
                            /\ ~cycle_log[j].fault
                            /\ IsIntLiteral(cycle_log[j].ret)}}
        commanded == IF SetDriveDone THEN {current_drive} ELSE {}
    IN  IF reported \cup commanded = {} THEN {current_drive}
        ELSE reported \cup commanded

\* One Reading per cycle whose power query returned a number.
OneReadingPerCycle ==
    (pc = "L414" /\ PowerUsable) => Cardinality(CycleReadings) = 1

\* C21: a cycle whose power query returned a number appends exactly one Reading, and the
\* drive in it is a drive level in effect at the device in that cycle, the one the device
\* reported or the one it was sent, from the first cycle on and with or without a
\* set-drive command.
C21_ReadingHoldsDeviceDrive ==
    /\ OneReadingPerCycle
    /\ (pc = "L414" /\ PowerUsable) =>
            \A i \in CycleReadings : appended[i].drive \in DrivesInEffect

====
